---- MODULE Spec2Model ----
(***************************************************************************)
(* Model of src/src/App.tsx: the capture handler (captureSubject), the     *)
(* generative-canvas effect (noise loop / denoise loop), the host's frame  *)
(* callbacks (requestAnimationFrame), the image decode callback            *)
(* (img.onload) and the caption rendering.                                 *)
(*                                                                         *)
(* State updates made in one synchronous continuation are one commit       *)
(* (batched updates).  The effect of lines 39-162 is a passive effect: it  *)
(* runs after the commit that changed one of its dependencies, and always  *)
(* before the next commit; frame callbacks and image decodes may run in    *)
(* between.  All frame callbacks pending at a frame run in that frame, in  *)
(* the order they were requested.                                          *)
(*                                                                         *)
(* Nullable values are options: None is null/undefined, Some(v) is v.      *)
(* Texts are sequences of tokens, so that trim and concatenation are       *)
(* computed.                                                               *)
(***************************************************************************)
EXTENDS Integers, Sequences, FiniteSets, TLC

VARIABLES
    isCameraReady,   \* useState, line 13
    hasCaptured,     \* useState, line 14
    isAnalyzing,     \* useState, line 15
    aiConcept,       \* useState, line 17: option of text
    generatedImage,  \* useState, line 18: option of data URL
    animationRef,    \* useRef, line 11: <<>> null, <<0>> a handle with no
                     \* pending callback, <<i>> the handle of rafQueue[i]
    rafQueue,        \* the host's pending frame callbacks, in request order
    imgLoads,        \* captures whose generated image is being decoded
    effectDirty,     \* a dependency of the effect changed in the last commit
    hasCleanup,      \* the last effect run returned its cleanup function
    surface,         \* what the generative canvas shows (last write)
    lastDraws,       \* the writes of the last handler that wrote to the generative canvas
    physicsCanvas,   \* the left pane: capture that wrote it and its size
    chains,          \* one record per accepted capture: its external calls
    reveal,          \* the denoise loop of the latest capture: none, started, settled
    targetData,      \* denoiser: the TargetGrid buffer (RGBA bytes)
    data,            \* denoiser: imgData.data, the working buffer
    step,            \* denoiser: the closure's step counter
    pending,         \* denoiser: a frame callback is requested
    finals           \* denoiser: number of terminal renders made

ctlVars == <<isCameraReady, hasCaptured, isAnalyzing, aiConcept, generatedImage,
             animationRef, rafQueue, imgLoads, effectDirty, hasCleanup, surface,
             lastDraws, physicsCanvas, chains, reveal>>
pixVars == <<targetData, data, step, pending, finals>>
vars == <<ctlVars, pixVars>>

----------------------------------------------------------------------------
(* Bounds *)

\* accepted captures in one behaviour
MaxCaptures == 2

\* side of the denoiser's grid in the pixel-level specification
GridRes == 2

(* Program constants *)

totalSteps == 90

----------------------------------------------------------------------------
(* Options and texts *)

None == <<>>
Some(v) == <<v>>

Min(a, b) == IF a <= b THEN a ELSE b
Max(a, b) == IF a >= b THEN a ELSE b

\* String.prototype.trim on a sequence of tokens: strips blanks at both ends
RECURSIVE TrimLeft(_)
TrimLeft(t) == IF t # <<>> /\ Head(t) = " " THEN TrimLeft(Tail(t)) ELSE t

RECURSIVE TrimRight(_)
TrimRight(t) ==
    IF t # <<>> /\ t[Len(t)] = " " THEN TrimRight(SubSeq(t, 1, Len(t) - 1)) ELSE t

Trim(t) == TrimRight(TrimLeft(t))

FallbackConcept == <<"Unidentified object">>
ErrorText == <<"Error: System failed to generate image.">>
PromptSuffix == <<", full color photography, vivid, detailed">>

\* the concept taken from the text as returned, without trim
ConceptOfUntrimmed(resp) ==
    IF resp = None THEN FallbackConcept
    ELSE IF resp[1] = <<>> THEN FallbackConcept
    ELSE resp[1]

\* line 228: visionResponse.text?.trim() || "Unidentified object"
ConceptOf(resp) ==
    IF resp = None THEN FallbackConcept
    ELSE IF Trim(resp[1]) = <<>> THEN FallbackConcept
    ELSE Trim(resp[1])

\* the prompt built from the state variable of the stale closure (null)
ImagePromptStale(concept) == <<"null">> \o PromptSuffix

\* line 234: concept + ", full color photography, vivid, detailed"
ImagePrompt(concept) == concept \o PromptSuffix

HasImageDataLax(r) == r # None

\* line 242: !genBase64 is true of undefined and of the empty string
HasImageData(r) == r # None /\ r[1] # ""

\* line 246
DataUrl(b) == <<"data:image/jpeg;base64,", b>>

\* JS truthiness of string | null
Truthy(opt) == opt # None /\ opt[1] # <<>>

(* Inputs *)

VisionResponses == {None, Some(<<>>), Some(<<" ">>), Some(<<"a">>), Some(<<" ", "a", " ">>)}
ImageResponses == {None, Some(""), Some("imgA")}
VideoDims == {0, 640}

----------------------------------------------------------------------------
(* The capture control and the caption, lines 263-269 and 310-321 *)

CaptureEnabledAlways == isCameraReady

\* line 265: disabled={!isCameraReady || isAnalyzing}
CaptureEnabled == isCameraReady /\ ~isAnalyzing

\* lines 311-320: the caption of the right pane
Caption ==
    IF ~hasCaptured THEN None
    ELSE IF generatedImage = None /\ Truthy(aiConcept)
        THEN Some([label |-> "Synthesizing image from concept...", text |-> None])
    ELSE IF isAnalyzing
        THEN Some([label |-> "Extracting semantic features...", text |-> None])
    ELSE Some([label |-> "Generated From Prompt", text |-> aiConcept])

----------------------------------------------------------------------------
(* The generative-canvas effect, lines 39-162 *)

Deps == <<isAnalyzing, generatedImage, hasCaptured, aiConcept>>

\* the branch taken only once a concept exists
NoiseBranchConceptOnly == generatedImage = None /\ Truthy(aiConcept)

\* line 65
NoiseBranch == isAnalyzing \/ (generatedImage = None /\ Truthy(aiConcept))

\* line 84
DenoiseBranch == ~NoiseBranch /\ generatedImage # None

Draw(kind, cap, s) == [kind |-> kind, cap |-> cap, step |-> s]
Loop(kind, cap, s) == [kind |-> kind, cap |-> cap, step |-> s]

RemoveAt(q, i) == SubSeq(q, 1, i - 1) \o SubSeq(q, i + 1, Len(q))

\* cancelAnimationFrame(h) behind "if (animationRef.current)", lines 86, 160:
\* the callback of handle h is dropped; the ref keeps the (now useless) handle
CancelQueue(q, ref) == IF ref # None /\ ref[1] > 0 THEN RemoveAt(q, ref[1]) ELSE q
CancelRef(ref) == IF ref # None THEN <<0>> ELSE ref

\* The running state threaded through the calls of one step:
\* q the frame callbacks requested, ref animationRef.current, draws the writes
\* to the canvas, surf its content, rev the progress of the latest capture's
\* denoise loop.
Acc(q, ref, draws, surf, rev) == [q |-> q, ref |-> ref, draws |-> draws, surf |-> surf, rev |-> rev]

\* lines 67-81: one call of drawNoise by the loop started for capture cap
DrawNoise(acc, cap) ==
    LET d == Draw("noise", cap, 0)
        q2 == Append(acc.q, Loop("noise", cap, 0))
    IN Acc(q2, <<Len(q2)>>, Append(acc.draws, d), d, acc.rev)

DenoiseContinuesInclusive(s) == s <= totalSteps

\* line 143
DenoiseContinues(s) == s < totalSteps

\* the progress of the latest capture's denoise loop; the loops of earlier
\* captures are not recorded
SetReveal(rev, cap, r) == IF cap = Len(chains) THEN r ELSE rev

\* lines 100-153: one call of denoise by the loop of capture cap whose step
\* counter is s before the call
Denoise(acc, cap, s) ==
    LET s2 == s + 1
        d == Draw("denoise", cap, s2)
    IN IF DenoiseContinues(s2)
       THEN LET q2 == Append(acc.q, Loop("denoise", cap, s2))
            IN Acc(q2, <<Len(q2)>>, Append(acc.draws, d), d, acc.rev)
       ELSE LET f == Draw("final", cap, s2)
            IN Acc(acc.q, acc.ref, acc.draws \o <<d, f>>, f, SetReveal(acc.rev, cap, "settled"))

\* the frame: every callback pending at its start runs, in request order
RECURSIVE RunCallbacks(_, _, _)
RunCallbacks(old, i, acc) ==
    IF i > Len(old) THEN acc
    ELSE RunCallbacks(old, i + 1,
            IF old[i].kind = "noise" THEN DrawNoise(acc, old[i].cap)
            ELSE Denoise(acc, old[i].cap, old[i].step))

----------------------------------------------------------------------------
(* Initial state: the component is mounted, both effects have run once     *)
(* (lines 49-53: the generative canvas is filled black), the camera has    *)
(* not reported its metadata yet.                                          *)

PixIdle ==
    /\ targetData = <<>>
    /\ data = <<>>
    /\ step = 0
    /\ pending = FALSE
    /\ finals = 0

CtlInit ==
    /\ isCameraReady = FALSE
    /\ hasCaptured = FALSE
    /\ isAnalyzing = FALSE
    /\ aiConcept = None
    /\ generatedImage = None
    /\ animationRef = None
    /\ rafQueue = <<>>
    /\ imgLoads = {}
    /\ effectDirty = FALSE
    /\ hasCleanup = FALSE
    /\ surface = Draw("black", 0, 0)
    /\ lastDraws = <<>>
    /\ physicsCanvas = [cap |-> 0, size |-> 0]
    /\ chains = <<>>
    /\ reveal = "none"

Init == CtlInit /\ PixIdle

----------------------------------------------------------------------------
(* Handlers *)

\* line 29: videoRef.current.onloadedmetadata
CameraReady ==
    /\ ~isCameraReady
    /\ isCameraReady' = TRUE
    /\ UNCHANGED lastDraws
    /\ UNCHANGED <<hasCaptured, isAnalyzing, aiConcept, generatedImage, animationRef,
                   rafQueue, imgLoads, effectDirty, hasCleanup, surface,
                   physicsCanvas, chains, reveal>>
    /\ UNCHANGED pixVars

\* A capture gesture while the button is disabled (line 265): no click event
\* is dispatched and captureSubject does not run.
CaptureWhileDisabled ==
    /\ ~CaptureEnabled
    /\ UNCHANGED lastDraws
    /\ UNCHANGED <<isCameraReady, hasCaptured, isAnalyzing, aiConcept, generatedImage,
                   animationRef, rafQueue, imgLoads, effectDirty, hasCleanup, surface,
                   physicsCanvas, chains, reveal>>
    /\ UNCHANGED pixVars

\* the capture's chain of external calls, whose concept-extraction call
\* (line 220) is in flight: stage is the position of the invocation, prompt
\* the image request it has issued, reply what the last call returned
NewChain == [stage |-> "concept", prompt |-> <<>>, reply |-> "none"]

\* an invocation of captureSubject that has returned holds no state
Over(c) ==
    IF c.stage \in {"concept", "image"} THEN c
    ELSE [stage |-> "over", prompt |-> <<>>, reply |-> "none"]

\* a guard that returns only when both dimensions are 0
NotReadyBoth(vidW, vidH) == vidW = 0 /\ vidH = 0

\* line 173: if (vidW === 0 || vidH === 0) return
NotReady(vidW, vidH) == vidW = 0 \/ vidH = 0

\* lines 165-220: the click handler up to its first await.  A commit starts
\* with the pending effects flushed, hence ~effectDirty.
CaptureSubject(vidW, vidH) ==
    /\ CaptureEnabled
    /\ ~effectDirty
    /\ UNCHANGED lastDraws
    /\ IF NotReady(vidW, vidH)
       THEN \* line 173
            /\ UNCHANGED <<hasCaptured, isAnalyzing, aiConcept, generatedImage,
                           effectDirty, physicsCanvas, chains, reveal>>
       ELSE /\ Len(chains) < MaxCaptures
            \* lines 175-211
            /\ physicsCanvas' = [cap |-> Len(chains) + 1, size |-> Min(vidW, vidH)]
            \* lines 213-216
            /\ hasCaptured' = TRUE
            /\ isAnalyzing' = TRUE
            /\ aiConcept' = None
            /\ generatedImage' = None
            /\ chains' = Append([k \in 1..Len(chains) |-> Over(chains[k])], NewChain)
            /\ reveal' = "none"
            /\ effectDirty' = (Deps' # Deps)
    /\ UNCHANGED <<isCameraReady, animationRef, rafQueue, imgLoads, hasCleanup, surface>>
    /\ UNCHANGED pixVars

\* a catch block that stores no text
CatchKeepsConcept(k, why) ==
    /\ UNCHANGED aiConcept
    /\ isAnalyzing' = FALSE
    /\ chains' = [chains EXCEPT ![k].stage = "failed", ![k].reply = why]
    /\ UNCHANGED generatedImage

\* a catch block that leaves the analysing flag set
CatchKeepsAnalyzing(k, why) ==
    /\ aiConcept' = Some(ErrorText)
    /\ UNCHANGED isAnalyzing
    /\ chains' = [chains EXCEPT ![k].stage = "failed", ![k].reply = why]
    /\ UNCHANGED generatedImage

\* lines 248-252: the catch block
Catch(k, why) ==
    /\ aiConcept' = Some(ErrorText)
    /\ isAnalyzing' = FALSE
    /\ chains' = [chains EXCEPT ![k].stage = "failed", ![k].reply = why]
    /\ UNCHANGED generatedImage

\* lines 228-232: the concept-extraction call of capture k resolves
ConceptResolve(k, resp) ==
    /\ chains[k].stage = "concept"
    /\ ~effectDirty
    /\ aiConcept' = Some(ConceptOf(resp))
    /\ chains' = [chains EXCEPT ![k].stage = "image",
                                ![k].reply = "conceptText",
                                ![k].prompt = ImagePrompt(ConceptOf(resp))]
    /\ UNCHANGED lastDraws
    /\ UNCHANGED <<isCameraReady, hasCaptured, isAnalyzing, generatedImage, animationRef,
                   rafQueue, imgLoads, hasCleanup, surface, physicsCanvas, reveal>>
    /\ UNCHANGED pixVars
    /\ effectDirty' = (Deps' # Deps)

\* line 220 rejects: control passes to the catch block
ConceptReject(k) ==
    /\ chains[k].stage = "concept"
    /\ ~effectDirty
    /\ Catch(k, "conceptRejected")
    /\ UNCHANGED lastDraws
    /\ UNCHANGED <<isCameraReady, hasCaptured, animationRef, rafQueue, imgLoads,
                   hasCleanup, surface, physicsCanvas, reveal>>
    /\ UNCHANGED pixVars
    /\ effectDirty' = (Deps' # Deps)

\* what the image-generation service returned: image data or none
ReplyKind(r) == IF r = None \/ r[1] = "" THEN "imageEmpty" ELSE "imageData"

\* lines 240-247: the image-generation call of capture k resolves
ImageResolve(k, r) ==
    /\ chains[k].stage = "image"
    /\ ~effectDirty
    /\ IF HasImageData(r)
       THEN /\ generatedImage' = Some(DataUrl(r[1]))
            /\ isAnalyzing' = FALSE
            /\ chains' = [chains EXCEPT ![k].stage = "ok", ![k].reply = ReplyKind(r)]
            /\ UNCHANGED aiConcept
       ELSE \* line 243
            /\ Catch(k, ReplyKind(r))
    /\ UNCHANGED lastDraws
    /\ UNCHANGED <<isCameraReady, hasCaptured, animationRef, rafQueue, imgLoads,
                   hasCleanup, surface, physicsCanvas, reveal>>
    /\ UNCHANGED pixVars
    /\ effectDirty' = (Deps' # Deps)

\* line 232 rejects: control passes to the catch block
ImageReject(k) ==
    /\ chains[k].stage = "image"
    /\ ~effectDirty
    /\ Catch(k, "imageRejected")
    /\ UNCHANGED lastDraws
    /\ UNCHANGED <<isCameraReady, hasCaptured, animationRef, rafQueue, imgLoads,
                   hasCleanup, surface, physicsCanvas, reveal>>
    /\ UNCHANGED pixVars
    /\ effectDirty' = (Deps' # Deps)

\* lines 39-162: the cleanup of the previous run (lines 159-161), then the
\* body with the committed state
FlushEffect ==
    /\ effectDirty
    /\ LET cap == Len(chains)
           q1 == IF hasCleanup THEN CancelQueue(rafQueue, animationRef) ELSE rafQueue
           ref1 == IF hasCleanup THEN CancelRef(animationRef) ELSE animationRef
           \* lines 46-47: setting the canvas size clears it
           blank == Draw("blank", cap, 0)
       IN IF ~hasCaptured
          THEN \* lines 49-53
               /\ rafQueue' = q1
               /\ animationRef' = ref1
               /\ surface' = Draw("black", cap, 0)
               /\ UNCHANGED lastDraws
               /\ hasCleanup' = FALSE
               /\ UNCHANGED imgLoads
          ELSE IF NoiseBranch
          THEN \* lines 65-82
               LET acc == DrawNoise(Acc(q1, ref1, <<>>, blank, reveal), cap)
               IN /\ rafQueue' = acc.q
                  /\ animationRef' = acc.ref
                  /\ surface' = acc.surf
                  /\ lastDraws' = acc.draws
                  /\ hasCleanup' = TRUE
                  /\ UNCHANGED imgLoads
          ELSE IF DenoiseBranch
          THEN \* lines 84-89, 156
               /\ rafQueue' = CancelQueue(q1, ref1)
               /\ animationRef' = CancelRef(ref1)
               /\ imgLoads' = imgLoads \cup {cap}
               /\ surface' = blank
               /\ UNCHANGED lastDraws
               /\ hasCleanup' = TRUE
          ELSE /\ rafQueue' = q1
               /\ animationRef' = ref1
               /\ surface' = blank
               /\ UNCHANGED lastDraws
               /\ hasCleanup' = TRUE
               /\ UNCHANGED imgLoads
    /\ effectDirty' = FALSE
    /\ UNCHANGED <<isCameraReady, hasCaptured, isAnalyzing, aiConcept, generatedImage,
                   physicsCanvas, chains, reveal>>
    /\ UNCHANGED pixVars

\* lines 89-155: img.onload of the image of capture cap: the TargetGrid is
\* decoded, step = 0 and denoise() is called once
ImgLoad(cap) ==
    /\ cap \in imgLoads
    /\ LET acc == Denoise(Acc(rafQueue, animationRef, <<>>, surface,
                              SetReveal(reveal, cap, "started")), cap, 0)
       IN /\ rafQueue' = acc.q
          /\ animationRef' = acc.ref
          /\ surface' = acc.surf
          /\ lastDraws' = acc.draws
          /\ reveal' = acc.rev
    /\ imgLoads' = imgLoads \ {cap}
    /\ UNCHANGED <<isCameraReady, hasCaptured, isAnalyzing, aiConcept, generatedImage,
                   effectDirty, hasCleanup, physicsCanvas, chains>>
    /\ UNCHANGED pixVars

\* lines 88-89, 156: the data does not decode; no onerror handler is set, so
\* nothing runs
ImgError(cap) ==
    /\ cap \in imgLoads
    /\ imgLoads' = imgLoads \ {cap}
    /\ UNCHANGED lastDraws
    /\ UNCHANGED <<isCameraReady, hasCaptured, isAnalyzing, aiConcept, generatedImage,
                   animationRef, rafQueue, effectDirty, hasCleanup, surface,
                   physicsCanvas, chains, reveal>>
    /\ UNCHANGED pixVars

\* lines 80, 144: the host runs the frame callbacks requested before this
\* frame; their handles are spent from then on
Frame ==
    /\ rafQueue # <<>>
    /\ LET acc == RunCallbacks(rafQueue, 1,
                      Acc(<<>>, CancelRef(animationRef), <<>>, surface, reveal))
       IN /\ rafQueue' = acc.q
          /\ animationRef' = acc.ref
          /\ surface' = acc.surf
          /\ lastDraws' = acc.draws
          /\ reveal' = acc.rev
    /\ UNCHANGED <<isCameraReady, hasCaptured, isAnalyzing, aiConcept, generatedImage,
                   imgLoads, effectDirty, hasCleanup, physicsCanvas, chains>>
    /\ UNCHANGED pixVars

Next ==
    \/ CameraReady
    \/ CaptureWhileDisabled
    \/ \E w \in VideoDims, h \in VideoDims : CaptureSubject(w, h)
    \/ \E k \in 1..Len(chains), resp \in VisionResponses : ConceptResolve(k, resp)
    \/ \E k \in 1..Len(chains) : ConceptReject(k)
    \/ \E k \in 1..Len(chains), r \in ImageResponses : ImageResolve(k, r)
    \/ \E k \in 1..Len(chains) : ImageReject(k)
    \/ FlushEffect
    \/ \E cap \in imgLoads : ImgLoad(cap)
    \/ \E cap \in imgLoads : ImgError(cap)
    \/ Frame

Spec == Init /\ [][Next]_vars

\* lines 220, 232: an external call of capture k returns, either way
CallReturns ==
    \E k \in 1..Len(chains) :
        \/ \E resp \in VisionResponses : ConceptResolve(k, resp)
        \/ ConceptReject(k)
        \/ \E r \in ImageResponses : ImageResolve(k, r)
        \/ ImageReject(k)

\* every external call returns, and the passive effect of a commit is run
FairSpec == Spec /\ WF_vars(CallReturns) /\ WF_vars(FlushEffect)

----------------------------------------------------------------------------
(* The denoiser at the level of the pixel buffers, lines 89-155.           *)
(* Buffers are sequences of bytes, 4 per pixel, index i of the source at   *)
(* position i + 1.  Real numbers are fixed-point: scales are in 1/1000     *)
(* (Q), pow(x, 0.2) is taken to 1/60 (R); both scales are exact at         *)
(* progress 0 and 1.                                                       *)

\* line 56 (64 in the source)
noiseRes == GridRes

Q == 1000
R == 60

\* the largest r in lo..hi with r * r <= v
RECURSIVE SqrtIn(_, _, _)
SqrtIn(v, lo, hi) ==
    IF lo = hi THEN lo
    ELSE LET m == (lo + hi + 1) \div 2
         IN IF m * m <= v THEN SqrtIn(v, m, hi) ELSE SqrtIn(v, lo, m - 1)

ISqrt(v) == SqrtIn(v, 0, Q)
Pow5(r) == r * r * r * r * r

\* the largest r in lo..hi with r^5 <= v
RECURSIVE Root5In(_, _, _)
Root5In(v, lo, hi) ==
    IF lo = hi THEN lo
    ELSE LET m == (lo + hi + 1) \div 2
         IN IF Pow5(m) <= v THEN Root5In(v, m, hi) ELSE Root5In(v, lo, m - 1)

IRoot5(v) == Root5In(v, 0, R)

\* the exponent taken from progress instead of 1 - progress
BlockExpOfProgress(s) == (s * 6) \div totalSteps

\* line 104: Math.floor((1 - progress) * 6); the double product
\* (1 - 75/90) * 6 is 0.9999999999999998, whose floor is 0
BlockExp(s) == IF s = 75 THEN 0 ELSE ((totalSteps - s) * 6) \div totalSteps

RECURSIVE Pow2(_)
Pow2(n) == IF n <= 0 THEN 1 ELSE 2 * Pow2(n - 1)

\* lines 104-105
BlockSize(s) == Max(1, Min(32, Pow2(BlockExp(s))))

\* line 107: Math.pow(1 - progress, 1.2), in 1/Q
NoiseScale(s) ==
    LET u == totalSteps - s
    IN (((u * Q) \div totalSteps) * IRoot5(u * (Pow5(R) \div totalSteps))) \div R

\* line 108: Math.pow(progress, 0.5), in 1/Q
SignalScale(s) == ISqrt((s * Q * Q) \div totalSteps)

\* lines 104-108: the block size and the two scales of every step
Scales ==
    [s \in 1..totalSteps |->
        [blockSize |-> BlockSize(s),
         signalScale |-> SignalScale(s),
         noiseScale |-> NoiseScale(s)]] @@ <<>>

\* the sample taken from the pixel's own row
TargetIndexOwnRow(x, y, b) == (y * noiseRes + (x - (x % b))) * 4

\* lines 114-116: the index of the sample of pixel (x, y) for block size b
TargetIndex(x, y, b) == ((y - (y % b)) * noiseRes + (x - (x % b))) * 4

\* a store into a Uint8ClampedArray of a value given in 1/Q
Clamp8(v) == (Max(0, Min(255 * Q, v)) + (Q \div 2)) \div Q

\* Math.random() in 1/Q, for the draw at buffer position j of a frame whose
\* random stream is seed
Random(seed, j) == IF (j + seed) % 2 = 0 THEN 0 ELSE Q - 1

\* lines 118-133: the byte stored at position j, given the step's block size
\* and scales
NoisyByte(target, j, b, signalScale, noiseScale, seed) ==
    LET i == j - 1
        c == i % 4
        x == (i \div 4) % noiseRes
        y == (i \div 4) \div noiseRes
        t == target[TargetIndex(x, y, b) + c + 1]
        sig == 128 * Q + (t - 128) * signalScale
        noise == ((Random(seed, j) - (Q \div 2)) * 510 * noiseScale) \div Q
    IN IF c = 3 THEN 255 ELSE Clamp8(sig + noise)

\* lines 102-135: the buffer after the pixel loop of step s
NoisyFrame(target, s, seed) ==
    [j \in 1..(noiseRes * noiseRes * 4) |->
        NoisyByte(target, j, Scales[s].blockSize, Scales[s].signalScale,
                  Scales[s].noiseScale, seed)]

FinalCopyRGB(target, buf) ==
    [j \in 1..Len(buf) |-> IF (j - 1) % 4 = 3 THEN buf[j] ELSE target[j]]

\* line 148: for (i = 0; i < data.length; i++) data[i] = targetData[i]
FinalCopy(target, buf) == [j \in 1..Len(buf) |-> target[j]]

\* lines 100-153: one call of denoise
PixDenoise(seed) ==
    /\ step' = step + 1
    /\ IF DenoiseContinues(step + 1)
       THEN /\ data' = NoisyFrame(targetData, step + 1, seed)
            /\ pending' = TRUE
            /\ UNCHANGED finals
       ELSE /\ data' = FinalCopy(targetData, NoisyFrame(targetData, step + 1, seed))
            /\ pending' = FALSE
            /\ finals' = finals + 1
    /\ UNCHANGED targetData

\* lines 97, 154: the first call, made by img.onload
PixStart(seed) ==
    /\ step = 0 /\ ~pending /\ finals = 0
    /\ PixDenoise(seed)
    /\ UNCHANGED ctlVars

\* line 144: the frame callback
PixFrame(seed) ==
    /\ pending
    /\ PixDenoise(seed)
    /\ UNCHANGED ctlVars

\* TargetGrid inputs: every grid whose pixels are drawn from two RGBA values,
\* one opaque and one translucent
PixelVals == {<<255, 0, 37, 255>>, <<10, 200, 128, 64>>}
TargetGrids ==
    { [j \in 1..(noiseRes * noiseRes * 4) |-> g[(j - 1) \div 4][((j - 1) % 4) + 1]] :
        g \in [0..(noiseRes * noiseRes - 1) -> PixelVals] }

\* lines 62-63, 95, 97: createImageData gives a zeroed buffer; targetData is
\* the decoded TargetGrid; step = 0
DenoiseInit ==
    /\ CtlInit
    /\ targetData \in TargetGrids
    /\ data = [j \in 1..(noiseRes * noiseRes * 4) |-> 0]
    /\ step = 0
    /\ pending = FALSE
    /\ finals = 0

Seeds == {0, 1}

DenoiseNext ==
    \/ \E seed \in Seeds : PixStart(seed)
    \/ \E seed \in Seeds : PixFrame(seed)

SpecDenoise == DenoiseInit /\ [][DenoiseNext]_vars

----------------------------------------------------------------------------
(* Properties *)

\* the latest accepted capture (0: none yet)
cur == Len(chains)

InFlight(k) == chains[k].stage \in {"concept", "image"}

\* RevealState Failed: the chain of the latest capture ended in the catch block
Failed == cur > 0 /\ chains[cur].stage = "failed"

\* RevealState Settled: the denoise loop of the latest capture has rendered
\* its terminal frame
Settled == cur > 0 /\ reveal = "settled"

IsNoise(l) == l.kind = "noise"

\* the frame callbacks of the loops started for capture k
LoopsOf(k) == {i \in 1..Len(rafQueue) : rafQueue[i].cap = k}

\* C1: at most one animation loop (noise or denoise) has a pending frame
\* callback or draws to the generative canvas, and once the noise loop of a
\* newly accepted capture is running no loop started before that capture is
\* still pending.
C1_AtMostOneLoop ==
    /\ Len(rafQueue) <= 1
    /\ \A i, j \in 1..Len(lastDraws) :
          /\ lastDraws[i].cap = lastDraws[j].cap
          /\ IsNoise(lastDraws[i]) = IsNoise(lastDraws[j])
    /\ \A i \in LoopsOf(cur) : \A j \in 1..Len(rafQueue) :
          IsNoise(rafQueue[i]) => rafQueue[j].cap = cur

\* C2: after a failure of either external call, once the effect has run, no
\* frame callback is pending (so no frame is drawn) until the next capture.
C2_FailureStopsRendering ==
    (Failed /\ ~effectDirty) => rafQueue = <<>>

\* C3: after a failure the caption of the right pane shows the error text,
\* not a progress message.
C3_ErrorCaption ==
    Failed =>
        /\ Caption # None
        /\ Caption[1].text = Some(ErrorText)
        /\ Caption[1].label \notin {"Synthesizing image from concept...",
                                    "Extracting semantic features..."}

\* C4: an image-generation call that resolves without image data leaves the
\* state a rejected call leaves (not analysing, the error text as concept, no
\* generated image), and no image decode or denoise loop is started for that
\* capture.
C4_EmptyImageIsFailure ==
    \A k \in 1..cur :
        chains[k].reply \in {"imageEmpty", "imageRejected"} =>
            /\ k = cur
            /\ <<isAnalyzing, aiConcept, generatedImage>> = <<FALSE, Some(ErrorText), None>>
            /\ chains[k].stage = "failed"
            /\ reveal = "none"
            /\ k \notin imgLoads
            /\ \A i \in LoopsOf(k) : IsNoise(rafQueue[i])

C4_Witness ==
    /\ cur > 0
    /\ chains[cur].reply = "imageEmpty"
    /\ ~effectDirty

\* C5: the buffer the denoise loop writes last (the terminal frame) equals
\* the TargetGrid buffer byte for byte, alpha included, for every TargetGrid.
C5_TerminalFrameIsTarget ==
    (finals > 0) => (data = targetData /\ ~pending)

C5_Witness ==
    /\ finals = 1
    /\ data = targetData
    /\ \E j \in 1..Len(targetData) : (j - 1) % 4 = 3 /\ targetData[j] # 255
    /\ \E j \in 1..Len(targetData) : (j - 1) % 4 = 3 /\ targetData[j] = 255

\* the pixel-level specification with the host delivering the frame
\* callbacks it holds (and img.onload making its call of denoise)
FairDenoise == SpecDenoise /\ WF_vars(DenoiseNext)

C6_Shape ==
    /\ step \in 0..totalSteps
    /\ finals = (IF step = totalSteps THEN 1 ELSE 0)
    /\ pending = (step \in 1..(totalSteps - 1))

C6_Advance ==
    /\ step' = step + 1
    /\ finals' = finals + (IF step' = totalSteps THEN 1 ELSE 0)
    /\ targetData' = targetData
    /\ Len(data') = Len(targetData)

Stopped == step = totalSteps /\ finals = 1 /\ ~pending

\* C6: the denoise loop started for a TargetGrid begins at step 1, takes the
\* steps 1..totalSteps once each in increasing order, writing one frame per
\* step, renders the terminal frame once, with step totalSteps, and then has
\* no frame callback requested; with frame callbacks delivered it always
\* reaches that point, and stays there.
C6_DenoiseRunsOnceToEnd ==
    /\ []C6_Shape
    /\ [][C6_Advance]_vars
    /\ <>[]Stopped

C6_Witness ==
    /\ Stopped
    /\ step = 90

\* C7: once the terminal frame of the latest capture is rendered, the canvas
\* keeps it and no loop has a frame callback pending, until the next capture.
C7_SettledFrameStays ==
    Settled =>
        /\ surface = Draw("final", cur, totalSteps)
        /\ rafQueue = <<>>

\* C8: the image request of a capture is issued only after its concept call
\* has returned a text, never after the concept call was rejected, and its
\* prompt is the stored concept followed by the style suffix.
C8_ImageAfterConcept ==
    \A k \in 1..cur :
        /\ chains[k].stage = "concept" => chains[k].prompt = <<>>
        /\ chains[k].reply = "conceptRejected" => chains[k].prompt = <<>>
        /\ chains[k].stage \in {"image", "ok"} =>
              /\ k = cur
              /\ aiConcept # None
              /\ chains[k].prompt = aiConcept[1] \o PromptSuffix
              /\ aiConcept[1] # <<>>

C8_Witness ==
    /\ cur > 0
    /\ chains[cur].stage = "image"
    /\ chains[cur].prompt = <<"a">> \o PromptSuffix

\* C9: at most one capture's chain of external calls is in flight, and it is
\* the chain of the latest accepted capture.
C9_OneChainInFlight ==
    /\ Cardinality({k \in 1..cur : InFlight(k)}) <= 1
    /\ \A k \in 1..cur : InFlight(k) => k = cur
    /\ isAnalyzing = (cur > 0 /\ InFlight(cur))

C9_Witness ==
    /\ cur = 2
    /\ InFlight(2)
    /\ chains[1].stage = "over"

\* an accepted capture: captureSubject with the capture source ready
CaptureAccepted == \E w \in VideoDims \ {0}, h \in VideoDims \ {0} : CaptureSubject(w, h)

\* the model's own limits on accepting a capture
Room == cur < MaxCaptures /\ ~effectDirty

C10_Enabled ==
    (isCameraReady /\ Room) => (ENABLED CaptureAccepted <=> ~isAnalyzing)

C10_Reset ==
    cur' = cur + 1 =>
        /\ ~isAnalyzing
        /\ hasCaptured' /\ isAnalyzing'
        /\ aiConcept' = None /\ generatedImage' = None
        /\ chains'[cur'] = [stage |-> "concept", prompt |-> <<>>, reply |-> "none"]
        /\ reveal' = "none"
        /\ effectDirty'

C10_NoiseStarted ==
    (isAnalyzing /\ ~effectDirty) =>
        /\ \E i \in LoopsOf(cur) : IsNoise(rafQueue[i])
        /\ \A i \in LoopsOf(cur) : IsNoise(rafQueue[i])

C11_Restartable ==
    (~isAnalyzing /\ isCameraReady /\ Room) =>
        /\ CaptureEnabled
        /\ ENABLED CaptureAccepted

\* a capture accepted in the Failed state starts from a clean state
C11_CleanRestart ==
    (Failed /\ cur' = cur + 1) =>
        /\ <<hasCaptured', isAnalyzing', aiConcept', generatedImage'>> = <<TRUE, TRUE, None, None>>
        /\ chains'[cur'] = NewChain
        /\ \A k \in 1..cur : ~InFlight(k) /\ chains'[k].stage = "over"
        /\ Caption' = Some([label |-> "Extracting semantic features...", text |-> None])
        /\ NoiseBranch'

\* C11: with every external call returning (resolving or rejecting), every
\* accepted capture is followed by a state that is not analysing, in which
\* the capture control is enabled; a capture is accepted there, and one
\* accepted after a failure resets the flags, clears the error text and
\* starts a new chain at concept extraction.
C11_NeverStuck ==
    /\ isAnalyzing ~> (~isAnalyzing /\ CaptureEnabled)
    /\ []C11_Restartable
    /\ [][C11_CleanRestart]_vars

\* a capture accepted after the failure of capture 1: the noise loop that
\* the failure left running is still pending, the new effect has not run
C11_Witness ==
    /\ cur = 2
    /\ isAnalyzing /\ aiConcept = None /\ effectDirty
    /\ rafQueue = <<Loop("noise", 1, 0)>>
    /\ chains[2] = NewChain

\* a capture event (the button enabled) with a video dimension of 0
NotReadyCapture ==
    \E w \in VideoDims, h \in VideoDims : (w = 0 \/ h = 0) /\ CaptureSubject(w, h)

\* C12: a capture event while a dimension of the video is 0 changes nothing:
\* the flags, the concept, the generated image, the frame callbacks and the
\* handle, both canvases and the chains of external calls are as before.
C12_NotReadyIsNoOp ==
    ~ENABLED (NotReadyCapture /\ vars' # vars)

\* the event is possible while a capture has been made and a loop is pending
C12_Witness ==
    /\ ENABLED NotReadyCapture
    /\ hasCaptured
    /\ rafQueue # <<>>
    /\ physicsCanvas.cap = 1

\* a response without text: the text is absent, or holds nothing but blanks
NoText(resp) == resp = None \/ \A i \in 1..Len(resp[1]) : resp[1][i] = " "

C13_OnSuccess ==
    \A resp \in VisionResponses :
        (\E k \in 1..cur : ConceptResolve(k, resp)) =>
            /\ (aiConcept' = Some(FallbackConcept)) <=> NoText(resp)
            /\ chains'[cur].prompt = aiConcept'[1] \o PromptSuffix
            /\ isAnalyzing' /\ chains'[cur].stage = "image"

C13_OnFailure ==
    (\E k \in 1..cur : ConceptReject(k)) =>
        /\ aiConcept' = Some(ErrorText)
        /\ aiConcept' # Some(FallbackConcept)
        /\ chains'[cur].prompt = <<>>
        /\ Failed' /\ ~isAnalyzing' /\ generatedImage' = None

\* C13: a concept call that resolves stores "Unidentified object" exactly
\* when the response has no text (absent, empty or blank), and that text is
\* then the prompt's concept; a concept call that rejects stores the error
\* text, never the fallback, issues no image request, and the state is
\* Failed.
C13_FallbackOnlyOnEmptyText ==
    /\ [][C13_OnSuccess]_vars
    /\ [][C13_OnFailure]_vars
    /\ [](\A k \in 1..cur : chains[k].reply = "conceptRejected" =>
              /\ aiConcept = Some(ErrorText)
              /\ chains[k].prompt = <<>>
              /\ chains[k].stage = "failed")

C13_Witness ==
    /\ cur = 1
    /\ aiConcept = Some(FallbackConcept)
    /\ chains[1].stage = "image"
    /\ chains[1].prompt = FallbackConcept \o PromptSuffix

\* C14: at every step the denoise loop takes, the block size is a power of
\* two between 1 and 32, is not larger than at any earlier step, and is 1 at
\* the last step.
C14_BlockSizeShrinks ==
    (step >= 1) =>
        /\ BlockSize(step) \in {1, 2, 4, 8, 16, 32}
        /\ Scales[step].blockSize = BlockSize(step)
        /\ \A s \in 1..step : BlockSize(s) >= BlockSize(step)
        /\ (step = totalSteps) => BlockSize(step) = 1

\* the last step, after the sizes 32 (step 1) down to 2 (step 74) and the
\* step 75 whose exponent the double product rounds down to 0
C14_Witness ==
    /\ step = totalSteps
    /\ BlockSize(1) = 32
    /\ BlockSize(74) = 2
    /\ BlockSize(75) = 1

\* C15: while a capture is analysed (from the effect run that follows its
\* acceptance until its image call returns), the noise loop of that capture
\* is pending, no denoise loop is pending or started, and the canvas shows
\* the noise loop's frame; this holds across a resolving concept call.
C15_NoiseWhileAnalyzing ==
    (isAnalyzing /\ ~effectDirty) =>
        /\ \E i \in LoopsOf(cur) : IsNoise(rafQueue[i])
        /\ \A i \in 1..Len(rafQueue) : IsNoise(rafQueue[i])
        /\ surface = Draw("noise", cur, 0)
        /\ reveal = "none"

\* RevealState Revealing or Settled: the effect has run with the generated
\* image of the latest capture
Revealed == generatedImage # None /\ ~effectDirty

\* C16: once the effect has run for the generated image (its cleanup having
\* cancelled the noise loop), no noise loop has a frame callback pending and
\* no noise frame is drawn or shown, until the next accepted capture.
C16_NoNoiseAfterReveal ==
    Revealed =>
        /\ \A i \in 1..Len(rafQueue) : ~IsNoise(rafQueue[i])
        /\ ~IsNoise(surface)

Coords == 0..(noiseRes - 1)

\* the buffer index of pixel (x, y), line 112
PixelIndex(x, y) == (y * noiseRes + x) * 4

NoiseByConceptOnly == ~isAnalyzing /\ generatedImage = None /\ Truthy(aiConcept)

\* a step that is not a capture event
StepWithoutCapture ==
    \/ CameraReady
    \/ CallReturns
    \/ FlushEffect
    \/ \E cap \in imgLoads : ImgLoad(cap) \/ ImgError(cap)
    \/ Frame

\* C18: the state with isAnalyzing false, no generated image and a concept
\* text is transient: whenever the system is in it, a step that is not a
\* capture event takes it out of that state.
C18_ConceptOnlyIsTransient ==
    NoiseByConceptOnly => ENABLED (StepWithoutCapture /\ ~NoiseByConceptOnly')

\* C19: in every committed state, a generated image is present only with
\* isAnalyzing false and with a concept text that is neither empty nor the
\* error text; and once a capture has been made, the capture is being
\* analysed or a concept text or a generated image is present, so that the
\* effect takes its noise branch or its denoise branch.
C19_FlagsConsistent ==
    /\ generatedImage # None =>
          /\ ~isAnalyzing
          /\ Truthy(aiConcept)
          /\ aiConcept # Some(ErrorText)
          /\ cur > 0 /\ chains[cur].stage = "ok"
    /\ hasCaptured =>
          /\ isAnalyzing \/ aiConcept # None \/ generatedImage # None
          /\ NoiseBranch \/ DenoiseBranch
    /\ hasCaptured = (cur > 0)

C19_Witness ==
    /\ hasCaptured
    /\ generatedImage = Some(DataUrl("imgA"))
    /\ aiConcept = Some(FallbackConcept)
    /\ DenoiseBranch
    /\ ~effectDirty

\* C20: every pending frame callback is the one whose handle
\* animationRef.current holds, so the cancel made by the effect cleanup
\* leaves no frame callback pending.
C20_HandleIdentifiesPending ==
    /\ \A i \in 1..Len(rafQueue) : animationRef = <<i>>
    /\ CancelQueue(rafQueue, animationRef) = <<>>

====
